---- MODULE Spec2Model ----
(***************************************************************************)
(* Model of app.py (Momentum Overnight Pro, a BTST scanner):               *)
(*   calculate_technical_indicators  - the indicator pipeline              *)
(*   calculate_btst_score            - the rule-based scorer               *)
(*   the scan handler                - benchmark check, per-symbol loop,   *)
(*                                     sort and pd.cut bucketing           *)
(*                                                                         *)
(* Floats are fixed-point: a number is held in hundredths (3.0 is 300,     *)
(* 0.1 is 10, 150 percent is 15000) and tagged with its kind, so that NaN, *)
(* infinities and non-numeric objects behave as Python's do.               *)
(***************************************************************************)
EXTENDS Integers, Sequences, FiniteSets, TLC

VARIABLES
    row,            \* calculate_btst_score: the row argument (a dict)
    score_out,      \* calculate_btst_score: its outcome (returned value or raise)
    score_in,       \* pd.cut: one value of the 'Score' column
    recommendation, \* pd.cut: the category assigned to it
    data,           \* the OHLCV frame of one symbol
    lib,            \* what the ta library answers for that frame
    table,          \* calculate_technical_indicators: its outcome
    record,         \* the Score Record built from the table
    pc,             \* scan handler: where the script stands
    market_choice,  \* the exchange radio button
    symbols,        \* the cleaned symbol list of the selected sheet
    i,              \* loop index: the symbols visited so far
    results,        \* the results list
    progress,       \* numerator of the progress bar
    status_text,    \* the status placeholder (its latest text)
    warnings,       \* the st.warning / st.error boxes shown, in order
    fetched,        \* what yf.download was asked and answered, in order
    nifty_data,     \* the benchmark download
    market_strength,
    results_df      \* the sorted, bucketed results table

scorer_vars == <<row, score_out>>
cut_vars == <<score_in, recommendation>>
pipeline_vars == <<data, lib, table, record>>
scan_vars == <<pc, market_choice, symbols, i, results, progress, status_text,
               warnings, fetched, nifty_data, market_strength, results_df>>

vars == <<scorer_vars, cut_vars, pipeline_vars, scan_vars>>

----------------------------------------------------------------------------
(* Python values as they reach the comparisons of the program.             *)

Num(x) == [k |-> "num", v |-> x]
NaN == [k |-> "nan", v |-> 0]
PosInf == [k |-> "inf", v |-> 1]
NegInf == [k |-> "inf", v |-> -1]
Str(x) == [k |-> "str", v |-> x]

\* a > b on floats: False whenever either side is NaN
GtVal(a, b) ==
    CASE a.k = "nan" \/ b.k = "nan" -> FALSE
      [] a.k = "num" /\ b.k = "num" -> a.v > b.v
      [] a.k = "str" /\ b.k = "str" -> a.v > b.v
      [] a.k = "inf" /\ b.k = "inf" -> a.v > b.v
      [] a.k = "inf" -> a.v > 0
      [] b.k = "inf" -> b.v < 0
      [] OTHER -> FALSE

\* a > b raises TypeError when exactly one side is not a number
GtRaises(a, b) == (a.k = "str") # (b.k = "str")

\* a == b; never raises
EqVal(a, b) == a.k # "nan" /\ a = b

----------------------------------------------------------------------------
(* calculate_btst_score                                                    *)

Fields == {"price_change_pct", "volume_change_pct", "rsi", "macd_diff",
           "ema_cross", "bb_width", "close_position", "vwap_diff",
           "ema20", "ema50"}

\* row.get(key, default)
Get(r, key, default) == IF key \in DOMAIN r THEN r[key] ELSE default

price_change_of(r) == Get(r, "price_change_pct", Num(0))
vol_change_of(r) == Get(r, "volume_change_pct", Num(0))
rsi_of(r) == Get(r, "rsi", Num(5000))
macd_diff_of(r) == Get(r, "macd_diff", Num(0))
ema_cross_of(r) == Get(r, "ema_cross", Num(0))
bb_width_of(r) == Get(r, "bb_width", Num(0))
close_pos_of(r) == Get(r, "close_position", Num(50))
vwap_diff_of(r) == Get(r, "vwap_diff", Num(0))
ema20_of(r) == Get(r, "ema20", Num(0))
ema50_of(r) == Get(r, "ema50", Num(100))

PriceMomentumPoints_cumulative(r) ==
    (IF GtVal(price_change_of(r), Num(300)) THEN 30 ELSE 0)
    + (IF GtVal(price_change_of(r), Num(200)) THEN 20 ELSE 0)
    + (IF GtVal(price_change_of(r), Num(100)) THEN 10 ELSE 0)

PriceMomentumPoints(r) ==
    IF GtVal(price_change_of(r), Num(300)) THEN 30
    ELSE IF GtVal(price_change_of(r), Num(200)) THEN 20
    ELSE IF GtVal(price_change_of(r), Num(100)) THEN 10
    ELSE 0

VolumeSpikePoints(r) ==
    IF GtVal(vol_change_of(r), Num(15000)) THEN 20
    ELSE IF GtVal(vol_change_of(r), Num(10000)) THEN 15
    ELSE IF GtVal(vol_change_of(r), Num(5000)) THEN 10
    ELSE 0

RsiPoints(r) ==
    IF GtVal(rsi_of(r), Num(5500)) /\ GtVal(Num(7000), rsi_of(r)) THEN 10 ELSE 0

MacdPoints(r) == IF GtVal(macd_diff_of(r), Num(0)) THEN 10 ELSE 0

EmaCrossPoints(r) == IF EqVal(ema_cross_of(r), Num(100)) THEN 5 ELSE 0

BbWidthPoints(r) == IF GtVal(bb_width_of(r), Num(10)) THEN 5 ELSE 0

ClosePositionPoints(r) ==
    IF GtVal(close_pos_of(r), Num(80)) THEN 20
    ELSE IF GtVal(close_pos_of(r), Num(70)) THEN 15
    ELSE IF GtVal(close_pos_of(r), Num(60)) THEN 10
    ELSE 0

VwapPoints_swapped(r) ==
    IF GtVal(vwap_diff_of(r), Num(100)) THEN 5
    ELSE IF GtVal(vwap_diff_of(r), Num(50)) THEN 10
    ELSE 0

VwapPoints(r) ==
    IF GtVal(vwap_diff_of(r), Num(100)) THEN 10
    ELSE IF GtVal(vwap_diff_of(r), Num(50)) THEN 5
    ELSE 0

TrendAlignmentPoints(r) == IF GtVal(ema20_of(r), ema50_of(r)) THEN 10 ELSE 0

\* a comparison of the function meets an operand it cannot order
ScoreRaises(r) ==
    \/ GtRaises(price_change_of(r), Num(0))
    \/ GtRaises(vol_change_of(r), Num(0))
    \/ GtRaises(rsi_of(r), Num(0))
    \/ GtRaises(macd_diff_of(r), Num(0))
    \/ GtRaises(bb_width_of(r), Num(0))
    \/ GtRaises(close_pos_of(r), Num(0))
    \/ GtRaises(vwap_diff_of(r), Num(0))
    \/ GtRaises(ema20_of(r), ema50_of(r))

Min(a, b) == IF a < b THEN a ELSE b

ScoreSum(r) ==
    PriceMomentumPoints(r) + VolumeSpikePoints(r) + RsiPoints(r)
    + MacdPoints(r) + EmaCrossPoints(r) + BbWidthPoints(r)
    + ClosePositionPoints(r) + VwapPoints(r) + TrendAlignmentPoints(r)

Returned(s) == [st |-> "returned", score |-> s]
Raised == [st |-> "raised", score |-> 0]
Pending == [st |-> "pending", score |-> 0]

calculate_btst_score_uncapped(r) ==
    IF ScoreRaises(r) THEN Raised ELSE Returned(ScoreSum(r))

calculate_btst_score(r) ==
    IF ScoreRaises(r) THEN Raised ELSE Returned(Min(ScoreSum(r), 100))

----------------------------------------------------------------------------
(* calculate_technical_indicators                                          *)
(*                                                                         *)
(* A frame is [cols, bars]: the columns present and the bars (integers).   *)
(* The ta library is outside the program: per indicator it either raises   *)
(* or returns a column that is NaN on its leading warm-up rows and holds   *)
(* a value after them.                                                     *)

Cols == {"Open", "High", "Low", "Close", "Volume"}

Derived == {"price_change_pct", "volume_change_pct", "vwap", "vwap_diff",
            "close_position", "rsi", "macd_diff", "ema20", "ema50",
            "ema_cross", "bb_width"}

Max(a, b) == IF a > b THEN a ELSE b

\* df.sort_index(ascending=True)
SortByDate(bars) == SortSeq(bars, LAMBDA a, b : a.date < b.date)

\* Series.fillna(value)
FillNa(x, value) == IF x.k = "nan" THEN value ELSE x

\* num / den * factor as a float in hundredths; x/0 is +-inf, 0/0 is NaN
Ratio(num, den, factor) ==
    IF den = 0
    THEN (IF num = 0 THEN NaN ELSE IF num > 0 THEN PosInf ELSE NegInf)
    ELSE Num((100 * factor * num) \div den)

\* num / (den + 1e-8) * factor: the epsilon only matters when den is 0
RatioEps(num, den, factor) ==
    IF den = 0
    THEN (IF num = 0 THEN Num(0) ELSE IF num > 0 THEN PosInf ELSE NegInf)
    ELSE Num((100 * factor * num) \div den)

RECURSIVE SumVolume(_, _, _)
SumVolume(b, lo, hi) ==
    IF lo > hi THEN 0 ELSE b[hi].Volume + SumVolume(b, lo, hi - 1)

\* cumulative (High + Low + Close) * Volume: three times the typical price
RECURSIVE SumTpVolume(_, _)
SumTpVolume(b, hi) ==
    IF hi = 0 THEN 0
    ELSE (b[hi].High + b[hi].Low + b[hi].Close) * b[hi].Volume
         + SumTpVolume(b, hi - 1)

\* df['Close'].pct_change().fillna(0) * 100
price_change_pct(b, t) ==
    IF t = 1 THEN Num(0)
    ELSE FillNa(Ratio(b[t].Close - b[t - 1].Close, b[t - 1].Close, 100), Num(0))

vol_window(n) == Min(10, n - 1)

\* ((Volume / rolling(vol_window, min_periods=1).mean()) - 1).fillna(0) * 100
volume_change_pct(b, t) ==
    IF vol_window(Len(b)) > 1
    THEN LET lo == Max(1, t - vol_window(Len(b)) + 1)
             k == t - lo + 1
             total == SumVolume(b, lo, t)
         IN  FillNa(Ratio(b[t].Volume * k - total, total, 100), Num(0))
    ELSE Num(0)

\* the try block of the VWAP meets a missing column
VwapFails(cols) == ~({"High", "Low", "Close", "Volume"} \subseteq cols)

vwap(b, cols, t) ==
    IF VwapFails(cols) THEN Num(100 * b[t].Close)
    ELSE Ratio(SumTpVolume(b, t), 3 * SumVolume(b, 1, t), 1)

\* ((Close - vwap) / (vwap + 1e-8)).fillna(0) * 100
vwap_diff(b, cols, t) ==
    IF VwapFails(cols) THEN Num(0)
    ELSE LET tp == SumTpVolume(b, t)
             vol == SumVolume(b, 1, t)
         IN  IF vol = 0 THEN Num(0)
             ELSE RatioEps(3 * vol * b[t].Close - tp, tp, 100)

\* (Close - Low) / (High - Low + 1e-8), NaN filled with 0.5
close_position(b, cols, t) ==
    IF ~({"High", "Low", "Close"} \subseteq cols) THEN Num(50)
    ELSE FillNa(RatioEps(b[t].Close - b[t].Low, b[t].High - b[t].Low, 1), Num(50))

LibOut(raise, val) == [raise |-> raise, val |-> val]

\* every library call raises: each indicator falls back to its default
LibDefaults ==
    [rsi |-> LibOut(TRUE, NaN), macd |-> LibOut(TRUE, NaN),
     ema20 |-> LibOut(TRUE, NaN), ema50 |-> LibOut(TRUE, NaN),
     bb |-> LibOut(TRUE, NaN)]

\* answers of the library: all raising, all NaN, and values on either
\* side of each comparison the program makes with them
LibCases ==
    {LibDefaults,
     [rsi |-> LibOut(FALSE, NaN), macd |-> LibOut(FALSE, NaN),
      ema20 |-> LibOut(FALSE, NaN), ema50 |-> LibOut(FALSE, NaN),
      bb |-> LibOut(FALSE, NaN)],
     [rsi |-> LibOut(FALSE, Num(6000)), macd |-> LibOut(FALSE, Num(100)),
      ema20 |-> LibOut(FALSE, Num(20400)), ema50 |-> LibOut(FALSE, Num(20100)),
      bb |-> LibOut(FALSE, Num(20))],
     [rsi |-> LibOut(FALSE, Num(7500)), macd |-> LibOut(FALSE, Num(-100)),
      ema20 |-> LibOut(FALSE, Num(19900)), ema50 |-> LibOut(FALSE, Num(20100)),
      bb |-> LibOut(FALSE, Num(5))],
     [rsi |-> LibOut(FALSE, Num(5000)), macd |-> LibOut(FALSE, Num(0)),
      ema20 |-> LibOut(FALSE, Num(20000)), ema50 |-> LibOut(FALSE, Num(20000)),
      bb |-> LibOut(TRUE, NaN)]}

\* row t of a column the library returned
LibColumn(out, warm, t) == IF t <= warm THEN NaN ELSE out.val

\* RSIIndicator(window=min(14, len(df)-1)).rsi().fillna(50), or 50
rsi(ta, n, t) ==
    IF ta.rsi.raise THEN Num(5000)
    ELSE FillNa(LibColumn(ta.rsi, Min(14, n - 1) - 1, t), Num(5000))

\* MACD(close).macd_diff().fillna(0), or 0
macd_diff(ta, t) ==
    IF ta.macd.raise THEN Num(0)
    ELSE FillNa(LibColumn(ta.macd, 33, t), Num(0))

\* EMAIndicator(window).ema_indicator().fillna(Close) when len(df) >= window
ema(b, out, window, t) ==
    IF Len(b) >= window /\ ~out.raise
    THEN FillNa(LibColumn(out, window - 1, t), Num(100 * b[t].Close))
    ELSE Num(100 * b[t].Close)

ema20(b, ta, t) == ema(b, ta.ema20, 20, t)
ema50(b, ta, t) == ema(b, ta.ema50, 50, t)

ema_cross_ge(b, ta, t) ==
    IF GtVal(ema50(b, ta, t), ema20(b, ta, t)) THEN Num(0) ELSE Num(100)

\* np.where(df['ema20'] > df['ema50'], 1, 0)
ema_cross(b, ta, t) ==
    IF GtVal(ema20(b, ta, t), ema50(b, ta, t)) THEN Num(100) ELSE Num(0)

BollingerComputed_from20(n) == n >= 20

\* the guard of the Bollinger block
BollingerComputed(n) == n > 20

\* BollingerBands(close).bollinger_wband().fillna(0) when len(df) > 20
bb_width(b, ta, t) ==
    IF BollingerComputed(Len(b)) /\ ~ta.bb.raise
    THEN FillNa(LibColumn(ta.bb, 19, t), Num(0))
    ELSE Num(0)

AugmentedRow(b, cols, ta, t) ==
    [f \in cols \cup Derived |->
        CASE f = "Open" -> Num(100 * b[t].Open)
          [] f = "High" -> Num(100 * b[t].High)
          [] f = "Low" -> Num(100 * b[t].Low)
          [] f = "Close" -> Num(100 * b[t].Close)
          [] f = "Volume" -> Num(100 * b[t].Volume)
          [] f = "price_change_pct" -> price_change_pct(b, t)
          [] f = "volume_change_pct" -> volume_change_pct(b, t)
          [] f = "vwap" -> vwap(b, cols, t)
          [] f = "vwap_diff" -> vwap_diff(b, cols, t)
          [] f = "close_position" -> close_position(b, cols, t)
          [] f = "rsi" -> rsi(ta, Len(b), t)
          [] f = "macd_diff" -> macd_diff(ta, t)
          [] f = "ema20" -> ema20(b, ta, t)
          [] f = "ema50" -> ema50(b, ta, t)
          [] f = "ema_cross" -> ema_cross(b, ta, t)
          [] f = "bb_width" -> bb_width(b, ta, t)]

\* df['Close'] or df['Volume'] outside any try block raises KeyError
IndicatorsRaise(df) ==
    \/ "Close" \notin df.cols
    \/ vol_window(Len(df.bars)) > 1 /\ "Volume" \notin df.cols

calculate_technical_indicators(df, ta) ==
    IF IndicatorsRaise(df) THEN [st |-> "raised", n |-> 0, rows |-> <<>>]
    ELSE LET b == SortByDate(df.bars)
         IN  [st |-> "returned", n |-> Len(b),
              rows |-> [t \in 1..Len(b) |-> AugmentedRow(b, df.cols, ta, t)]]

----------------------------------------------------------------------------
(* The Score Record of one symbol: the body of the scan loop after the     *)
(* indicators (latest row, score, day change, labels).                     *)

\* (latest['Close'] - prev_close) / prev_close * 100 when len(data) >= 2
day_change(tb) ==
    IF tb.n >= 2
    THEN LET c == tb.rows[tb.n].Close.v
             p == tb.rows[tb.n - 1].Close.v
         IN  Ratio(c - p, p, 100)
    ELSE Num(0)

Position(latest) ==
    IF GtVal(Get(latest, "close_position", Num(0)), Num(70)) THEN "Near High"
    ELSE IF GtVal(Get(latest, "close_position", Num(0)), Num(50)) THEN "Mid"
    ELSE "Near Low"

Trend(latest) ==
    IF GtVal(Get(latest, "ema20", Num(0)), Get(latest, "ema50", Num(100)))
    THEN "Bullish" ELSE "Neutral"

ScoreRecord(clean_symbol, tb, score) ==
    LET latest == tb.rows[tb.n]
    IN  [Symbol |-> clean_symbol,
         Score |-> score,
         Price |-> latest.Close,
         Change |-> day_change(tb),
         VolumeSpike |-> Get(latest, "volume_change_pct", Num(0)),
         RSI |-> Get(latest, "rsi", Num(5000)),
         Position |-> Position(latest),
         VwapDiff |-> Get(latest, "vwap_diff", Num(0)),
         Trend |-> Trend(latest)]

----------------------------------------------------------------------------
(* pd.cut(results_df['Score'], bins=[0, 40, 65, 85, 100], labels=[...]):   *)
(* right=True and include_lowest=False are the defaults, so bin i is the   *)
(* interval (bins[i], bins[i+1]] and a value in no bin becomes NaN.        *)

Bins == <<0, 40, 65, 85, 100>>
Labels == <<"Avoid", "Neutral", "Watch", "Strong Buy">>

InBin_left(x, b) == Bins[b] <= x /\ x < Bins[b + 1]

InBin(x, b) == Bins[b] < x /\ x <= Bins[b + 1]

pd_cut(x) ==
    IF \E b \in 1..Len(Labels) : InBin(x, b)
    THEN Labels[CHOOSE b \in 1..Len(Labels) : InBin(x, b)]
    ELSE "NaN"

----------------------------------------------------------------------------
(* Inputs of the scorer: rows of numeric fields around every threshold.    *)

PriceChangeValues ==
    {Num(0), Num(50), Num(150), Num(250), Num(300), Num(350), Num(500), NaN}
VolumeChangeValues == {Num(0), Num(7500), Num(12500), Num(15000), Num(20000)}
RsiValues == {Num(5000), Num(5500), Num(6000), Num(7000)}
MacdDiffValues == {Num(0), Num(100)}
EmaCrossValues == {Num(0), Num(100)}
BbWidthValues == {Num(0), Num(10), Num(20)}
ClosePositionValues == {Num(50), Num(65), Num(75), Num(80), Num(90)}
VwapDiffValues == {Num(0), Num(50), Num(75), Num(200)}
Ema20Values == {Num(100), Num(150), Num(200)}
Ema50Values == {Num(150)}

NumericRows ==
    [price_change_pct : PriceChangeValues,
     volume_change_pct : VolumeChangeValues,
     rsi : RsiValues,
     macd_diff : MacdDiffValues,
     ema_cross : EmaCrossValues,
     bb_width : BbWidthValues,
     close_position : ClosePositionValues,
     vwap_diff : VwapDiffValues,
     ema20 : Ema20Values,
     ema50 : Ema50Values]

NumericValues ==
    [price_change_pct |-> PriceChangeValues,
     volume_change_pct |-> VolumeChangeValues,
     rsi |-> RsiValues,
     macd_diff |-> MacdDiffValues,
     ema_cross |-> EmaCrossValues,
     bb_width |-> BbWidthValues,
     close_position |-> ClosePositionValues,
     vwap_diff |-> VwapDiffValues,
     ema20 |-> Ema20Values,
     ema50 |-> Ema50Values]

AllStrongest ==
    [price_change_pct |-> Num(500), volume_change_pct |-> Num(20000),
     rsi |-> Num(6000), macd_diff |-> Num(100), ema_cross |-> Num(100),
     bb_width |-> Num(20), close_position |-> Num(90), vwap_diff |-> Num(200),
     ema20 |-> Num(200), ema50 |-> Num(150)]

AllNeutral ==
    [price_change_pct |-> Num(0), volume_change_pct |-> Num(0),
     rsi |-> Num(5000), macd_diff |-> Num(0), ema_cross |-> Num(0),
     bb_width |-> Num(0), close_position |-> Num(50), vwap_diff |-> Num(0),
     ema20 |-> Num(100), ema50 |-> Num(150)]

\* a row with the fields D present, those of B holding a non-numeric object
LooseRow(D, B) == [f \in D |-> IF f \in B THEN Str(1) ELSE AllStrongest[f]]

\* the variables of the pipeline and of the bucketing, at rest
PipelineIdle ==
    /\ data = [cols |-> Cols, bars |-> <<>>]
    /\ lib = LibDefaults
    /\ table = [st |-> "pending", n |-> 0, rows |-> <<>>]
    /\ record = <<>>

CutIdle ==
    /\ score_in = 0
    /\ recommendation = "pending"

ScorerIdle ==
    /\ row = AllNeutral
    /\ score_out = Pending

NoStatus == [kind |-> "none", n |-> 0]
NoDownload == [kind |-> "none", closes |-> <<>>]

\* the page as rendered, the scan button not pressed
ScanIdle ==
    /\ pc = "ready"
    /\ market_choice = "NSE"
    /\ symbols = <<>>
    /\ i = 0
    /\ results = <<>>
    /\ progress = 0
    /\ status_text = NoStatus
    /\ warnings = <<>>
    /\ fetched = <<>>
    /\ nifty_data = NoDownload
    /\ market_strength = "Unknown"
    /\ results_df = <<>>

InitScore ==
    /\ row \in NumericRows
    /\ score_out = Pending
    /\ CutIdle
    /\ PipelineIdle
    /\ ScanIdle

InitLoose ==
    /\ \E D \in SUBSET Fields : \E B \in SUBSET D : row = LooseRow(D, B)
    /\ score_out = Pending
    /\ CutIdle
    /\ PipelineIdle
    /\ ScanIdle

ScoreRow ==
    /\ score_out = Pending
    /\ score_out' = calculate_btst_score(row)
    /\ UNCHANGED <<row, cut_vars, pipeline_vars, scan_vars>>

NextScore == ScoreRow

SpecScore == InitScore /\ [][NextScore]_vars

SpecLoose == InitLoose /\ [][NextScore]_vars

\* values a 'Score' column can hold, and some beyond the outer bin edges
ScoreColumn == -5..105

InitCut ==
    /\ score_in \in ScoreColumn
    /\ recommendation = "pending"
    /\ ScorerIdle
    /\ PipelineIdle
    /\ ScanIdle

Categorize ==
    /\ recommendation = "pending"
    /\ recommendation' = pd_cut(score_in)
    /\ UNCHANGED <<scorer_vars, score_in, pipeline_vars, scan_vars>>

NextCut == Categorize

SpecCut == InitCut /\ [][NextCut]_vars

----------------------------------------------------------------------------
(* One symbol through the pipeline and the scorer.                         *)

MaxBars == 51

Bar(d, o, h, l, c, v) ==
    [date |-> d, Open |-> o, High |-> h, Low |-> l, Close |-> c, Volume |-> v]

Shapes == {"flat", "rally", "mild", "zero"}

\* bar number t of a series of n bars: a quiet history, then the last day
ShapeBar(shape, n, t) ==
    CASE shape = "zero" -> Bar(t, 0, 0, 0, 0, 0)
      [] shape = "rally" /\ t = n -> Bar(t, 200, 210, 198, 208, 4)
      [] shape = "mild" /\ t = n -> Bar(t, 200, 204, 199, 203, 2)
      [] OTHER -> Bar(t, 200, 202, 198, 200, 1)

\* the bars in ascending date order, or newest first
Series(shape, n, newest_first) ==
    [t \in 1..n |-> ShapeBar(shape, n, IF newest_first THEN n + 1 - t ELSE t)]

Frames ==
    {[cols |-> Cols \ drop, bars |-> Series(shape, n, nf)] :
        drop \in {{}, {"High"}, {"Volume"}, {"Close"}},
        shape \in Shapes, n \in 0..MaxBars, nf \in BOOLEAN}

InitInd ==
    /\ data \in Frames
    /\ lib \in LibCases
    /\ table = [st |-> "pending", n |-> 0, rows |-> <<>>]
    /\ record = <<>>
    /\ ScorerIdle
    /\ CutIdle
    /\ ScanIdle

Indicators ==
    /\ table.st = "pending"
    /\ table' = calculate_technical_indicators(data, lib)
    /\ UNCHANGED <<scorer_vars, cut_vars, data, lib, record, scan_vars>>

\* latest = data.iloc[-1]; score = calculate_btst_score(latest); the record
ScoreLatest ==
    /\ table.st = "returned"
    /\ table.n >= 1
    /\ score_out = Pending
    /\ row' = table.rows[table.n]
    /\ score_out' = calculate_btst_score(row')
    /\ record' = IF score_out'.st = "returned"
                 THEN <<ScoreRecord(<<"T">>, table, score_out'.score)>>
                 ELSE <<>>
    /\ UNCHANGED <<cut_vars, data, lib, table, scan_vars>>

NextInd == Indicators \/ ScoreLatest

SpecInd == InitInd /\ [][NextInd]_vars

----------------------------------------------------------------------------
(* The scan handler: symbol list, benchmark check, per-symbol loop, and    *)
(* the results table. Strings the program edits are sequences of           *)
(* characters.                                                             *)

LowerCase == <<"a", "b", "c", "d", "e", "f", "g", "h", "i", "j", "k", "l", "m",
               "n", "o", "p", "q", "r", "s", "t", "u", "v", "w", "x", "y", "z">>
UpperCase == <<"A", "B", "C", "D", "E", "F", "G", "H", "I", "J", "K", "L", "M",
               "N", "O", "P", "Q", "R", "S", "T", "U", "V", "W", "X", "Y", "Z">>

UpperChar(c) ==
    IF \E j \in 1..Len(LowerCase) : LowerCase[j] = c
    THEN UpperCase[CHOOSE j \in 1..Len(LowerCase) : LowerCase[j] = c]
    ELSE c

\* str.upper()
Upper(str) == [j \in 1..Len(str) |-> UpperChar(str[j])]

Whitespace == {" ", "\t", "\n"}

\* str.strip()
RECURSIVE Strip(_)
Strip(str) ==
    IF str = <<>> THEN str
    ELSE IF Head(str) \in Whitespace THEN Strip(Tail(str))
    ELSE IF str[Len(str)] \in Whitespace THEN Strip(SubSeq(str, 1, Len(str) - 1))
    ELSE str

EndsWith(str, suffix) ==
    /\ Len(str) >= Len(suffix)
    /\ SubSeq(str, Len(str) - Len(suffix) + 1, Len(str)) = suffix

ExchangeSuffixes == {<<".", "N", "S">>, <<".", "B", "O">>,
                     <<".", "N", "S", "E">>, <<".", "B", "S", "E">>}

\* re.sub(r'\.(NS|BO|NSE|BSE)$', '', symbol, flags=re.IGNORECASE)
CleanSymbol(symbol) ==
    IF \E x \in ExchangeSuffixes : EndsWith(Upper(symbol), x)
    THEN LET x == CHOOSE x \in ExchangeSuffixes : EndsWith(Upper(symbol), x)
         IN  SubSeq(symbol, 1, Len(symbol) - Len(x))
    ELSE symbol

Suffix(choice) == IF choice = "NSE" THEN <<".", "N", "S">> ELSE <<".", "B", "O">>

YfSymbol(symbol, choice) == CleanSymbol(symbol) \o Suffix(choice)

\* symbols_df['Symbol'].astype(str).str.strip().str.upper().tolist()
LoadSymbols(cells) == [j \in 1..Len(cells) |-> Upper(Strip(cells[j]))]

MaxSymbols == 2

\* cells of a 'Symbol' column as typed into the workbook
RawCells == << <<" ", "t", "c", "s">>,
               <<"I", "N", "F", "Y", ".", "N", "S">>,
               <<"t", "c", "s", ".", "b", "o", " ">> >>

SheetCells(k) == [j \in 1..k |-> RawCells[((j - 1) % Len(RawCells)) + 1]]

\* read_excel of the selected sheet: a failure, a sheet without a 'Symbol'
\* column, or a sheet with one
Sheets ==
    {[kind |-> "raise", cells |-> <<>>], [kind |-> "no_symbol", cells |-> <<>>]}
    \cup {[kind |-> "ok", cells |-> SheetCells(k)] : k \in 0..MaxSymbols}

ClickScan ==
    /\ pc = "ready"
    /\ \E choice \in {"NSE", "BSE"}, sheet \in Sheets :
          /\ market_choice' = choice
          /\ IF sheet.kind = "ok"
             THEN /\ symbols' = LoadSymbols(sheet.cells)
                  /\ pc' = "market"
                  /\ UNCHANGED warnings
             ELSE /\ warnings' = Append(warnings, [kind |-> "error", n |-> 0])
                  /\ pc' = "stopped"
                  /\ UNCHANGED symbols
    /\ results' = <<>>
    /\ progress' = 0
    /\ status_text' = NoStatus
    /\ market_strength' = "Unknown"
    /\ UNCHANGED <<i, fetched, nifty_data, results_df>>
    /\ UNCHANGED <<scorer_vars, cut_vars, pipeline_vars>>

\* yf.download('^NSEI', period='2d'): it raises, or returns the closes of
\* no, one, two or three sessions (a rise, a fall, no change)
BenchmarkDownloads ==
    {[kind |-> "raise", closes |-> <<>>]}
    \cup {[kind |-> "frame", closes |-> c] :
            c \in {<<>>, <<100>>, <<100, 101>>, <<101, 100>>, <<100, 100>>,
                   <<101, 100, 101>>}}

MarketStrength_ge(download) ==
    IF download.kind = "frame" /\ Len(download.closes) >= 2
    THEN (IF download.closes[Len(download.closes)]
              >= download.closes[Len(download.closes) - 1]
          THEN "Bullish" ELSE "Bearish")
    ELSE "Unknown"

MarketStrength(download) ==
    IF download.kind = "frame" /\ Len(download.closes) >= 2
    THEN (IF download.closes[Len(download.closes)]
              > download.closes[Len(download.closes) - 1]
          THEN "Bullish" ELSE "Bearish")
    ELSE "Unknown"

CheckMarket ==
    /\ pc = "market"
    /\ \E download \in BenchmarkDownloads :
          /\ nifty_data' = download
          /\ market_strength' = MarketStrength(download)
          /\ warnings' = IF MarketStrength(download) = "Unknown"
                         THEN Append(warnings, [kind |-> "market", n |-> 0])
                         ELSE warnings
    /\ pc' = "scan"
    /\ UNCHANGED <<market_choice, symbols, i, results, progress, status_text,
                   fetched, results_df>>
    /\ UNCHANGED <<scorer_vars, cut_vars, pipeline_vars>>

\* answers of yf.download for one symbol, with the library's answers for it
Download(kind, cols, shape, n, ta) ==
    [kind |-> kind, frame |-> [cols |-> cols, bars |-> Series(shape, n, FALSE)],
     ta |-> ta]

LibBullish == CHOOSE ta \in LibCases : ~ta.bb.raise /\ ta.bb.val = Num(20)

SymbolDownloads ==
    {Download("raise", Cols, "flat", 0, LibDefaults),
     Download("none", Cols, "flat", 0, LibDefaults),
     Download("frame", Cols, "flat", 0, LibDefaults),
     Download("frame", Cols, "rally", 19, LibBullish),
     Download("frame", Cols, "flat", 20, LibDefaults),
     Download("frame", Cols \ {"Close"}, "rally", 20, LibBullish),
     Download("frame", Cols \ {"Volume", "High"}, "mild", 20, LibBullish),
     Download("frame", Cols, "rally", MaxBars, LibBullish)}

Insufficient_upto20(download) ==
    \/ download.kind = "none"
    \/ Len(download.frame.bars) <= 20

\* data is None or data.empty or len(data) < 20
Insufficient(download) ==
    \/ download.kind = "none"
    \/ Len(download.frame.bars) = 0
    \/ Len(download.frame.bars) < 20

\* for col in required_cols: a missing column is copied from Close when
\* there is a Close column; otherwise the frame is left as it is
Backfill(df) ==
    IF "Close" \in df.cols
    THEN [cols |-> Cols,
          bars |-> [t \in 1..Len(df.bars) |->
                      [f \in DOMAIN df.bars[t] |->
                          IF f \in Cols \ df.cols THEN df.bars[t].Close
                          ELSE df.bars[t][f]]]]
    ELSE df

\* the body of the try block after the download: "error" when it raises
ProcessData(clean_symbol, download) ==
    LET tb == calculate_technical_indicators(Backfill(download.frame), download.ta)
        score == calculate_btst_score(tb.rows[tb.n])
    IN  IF tb.st = "raised" \/ score.st = "raised"
        THEN [st |-> "raised", record |-> <<>>]
        ELSE [st |-> "returned",
              record |-> <<ScoreRecord(clean_symbol, tb, score.score)>>]

Request(download) ==
    [symbol |-> YfSymbol(symbols[i + 1], market_choice),
     kind |-> download.kind,
     bars |-> Len(download.frame.bars),
     cols |-> download.frame.cols]

Processed ==
    [kind |-> "processed", n |-> i + 1]

\* the download answers too little: continue, without a progress update
ScanSkip ==
    /\ pc = "scan"
    /\ i < Len(symbols)
    /\ \E download \in SymbolDownloads :
          /\ download.kind # "raise"
          /\ Insufficient(download)
          /\ fetched' = Append(fetched, Request(download))
    /\ status_text' = [kind |-> "skipped", n |-> i + 1]
    /\ i' = i + 1
    /\ UNCHANGED <<pc, market_choice, symbols, results, progress, warnings,
                   nifty_data, market_strength, results_df>>
    /\ UNCHANGED <<scorer_vars, cut_vars, pipeline_vars>>

\* the download, the indicators or the scorer raise: the except branch
ScanError ==
    /\ pc = "scan"
    /\ i < Len(symbols)
    /\ \E download \in SymbolDownloads :
          /\ \/ download.kind = "raise"
             \/ /\ ~Insufficient(download)
                /\ ProcessData(<<>>, download).st = "raised"
          /\ fetched' = Append(fetched, Request(download))
    /\ warnings' = Append(warnings, [kind |-> "symbol", n |-> i + 1])
    /\ progress' = i + 1
    /\ status_text' = Processed
    /\ i' = i + 1
    /\ UNCHANGED <<pc, market_choice, symbols, results, nifty_data,
                   market_strength, results_df>>
    /\ UNCHANGED <<scorer_vars, cut_vars, pipeline_vars>>

\* the symbol is scored and its record appended
ScanAppend ==
    /\ pc = "scan"
    /\ i < Len(symbols)
    /\ \E download \in SymbolDownloads :
          /\ download.kind # "raise"
          /\ ~Insufficient(download)
          /\ LET out == ProcessData(CleanSymbol(symbols[i + 1]), download)
             IN  /\ out.st = "returned"
                 /\ results' = Append(results, out.record[1])
          /\ fetched' = Append(fetched, Request(download))
    /\ progress' = i + 1
    /\ status_text' = Processed
    /\ i' = i + 1
    /\ UNCHANGED <<pc, market_choice, symbols, warnings, nifty_data,
                   market_strength, results_df>>
    /\ UNCHANGED <<scorer_vars, cut_vars, pipeline_vars>>

\* orders of the rows that sort_values('Score', ascending=False) may
\* return (quicksort: rows of equal score in any order)
SortedOrders(rs) ==
    {p \in [1..Len(rs) -> 1..Len(rs)] :
        /\ \A a, b \in 1..Len(rs) : a # b => p[a] # p[b]
        /\ \A a, b \in 1..Len(rs) : a < b => rs[p[a]].Score >= rs[p[b]].Score}

WithRecommendation(rec) ==
    [f \in DOMAIN rec \cup {"Recommendation"} |->
        IF f = "Recommendation" THEN pd_cut(rec.Score) ELSE rec[f]]

\* the loop is over: the results table is sorted and bucketed
Finish ==
    /\ pc = "scan"
    /\ i = Len(symbols)
    /\ IF results # <<>>
       THEN /\ \E p \in SortedOrders(results) :
                  results_df' = [j \in 1..Len(results) |->
                                    WithRecommendation(results[p[j]])]
            /\ UNCHANGED warnings
       ELSE /\ warnings' = Append(warnings, [kind |-> "no_results", n |-> 0])
            /\ UNCHANGED results_df
    /\ pc' = "done"
    /\ UNCHANGED <<market_choice, symbols, i, results, progress, status_text,
                   fetched, nifty_data, market_strength>>
    /\ UNCHANGED <<scorer_vars, cut_vars, pipeline_vars>>

Init ==
    /\ ScanIdle
    /\ ScorerIdle
    /\ CutIdle
    /\ PipelineIdle

Next == ClickScan \/ CheckMarket \/ ScanSkip \/ ScanError \/ ScanAppend \/ Finish

Spec == Init /\ [][Next]_vars

----------------------------------------------------------------------------
\* the frame under the pipeline holds every OHLCV column
FullFrame == Cols \subseteq data.cols

ColumnIs(f, value) == \A t \in 1..table.n : table.rows[t][f] = value

ColumnIsClose(f) ==
    \A t \in 1..table.n : table.rows[t][f] = table.rows[t].Close

(* C8: calculate_technical_indicators never raises on a short series and   *)
(* fills the defaults by the length n of the input: bb_width is 0 on every *)
(* row when n <= 20, ema50 is the Close column when n < 50, ema20 is the   *)
(* Close column when n < 20, volume_change_pct is 0 when min(10, n-1) <= 1,*)
(* and no row of the input is dropped.                                     *)
C8_ShortSeriesDefaults ==
    (table.st # "pending" /\ FullFrame) =>
        LET n == Len(data.bars)
        IN  /\ table.st = "returned"
            /\ table.n = n
            /\ DOMAIN table.rows = 1..n
            /\ n <= 20 => ColumnIs("bb_width", Num(0))
            /\ n < 50 => ColumnIsClose("ema50")
            /\ n < 20 => ColumnIsClose("ema20")
            /\ Min(10, n - 1) <= 1 => ColumnIs("volume_change_pct", Num(0))

\* a 19-bar series, with a library that answers every call with values
C8_Witness ==
    /\ table.st = "returned"
    /\ FullFrame
    /\ Len(data.bars) = 19
    /\ \A f \in DOMAIN lib : ~lib[f].raise /\ lib[f].val.k = "num"
    /\ DOMAIN table.rows = 1..19
    /\ table.rows[19].bb_width = Num(0)
    /\ table.rows[19].ema50 = table.rows[19].Close

(* C10: on every row of the pipeline ema_cross == 1 exactly when           *)
(* ema20 > ema50, so the 5 points of the short-term trend and the 10 of    *)
(* the trend alignment are awarded together or not at all, and the Trend   *)
(* label of the Score Record is Bullish exactly when they were awarded,    *)
(* Neutral otherwise.                                                      *)
C10_CrossMatchesTrend ==
    /\ table.st = "returned" =>
          \A t \in 1..table.n :
              (table.rows[t].ema_cross = Num(100))
              <=> GtVal(table.rows[t].ema20, table.rows[t].ema50)
    /\ record # <<>> =>
          /\ EmaCrossPoints(row) + TrendAlignmentPoints(row) \in {0, 15}
          /\ record[1].Trend = "Bullish"
                <=> EmaCrossPoints(row) + TrendAlignmentPoints(row) = 15
          /\ record[1].Trend = "Neutral"
                <=> EmaCrossPoints(row) + TrendAlignmentPoints(row) = 0

C10_Witness ==
    /\ record # <<>>
    /\ record[1].Trend = "Bullish"
    /\ EmaCrossPoints(row) = 5
    /\ TrendAlignmentPoints(row) = 10

----------------------------------------------------------------------------
(* C1: for every row of numeric fields calculate_btst_score returns an     *)
(* integer s with 0 <= s <= 100.                                           *)
C1_ScoreInRange ==
    score_out # Pending =>
        /\ score_out.st = "returned"
        /\ score_out.score \in 0..100

\* the cap acts: the awarded points exceed 100 and 100 is returned
C1_Witness ==
    /\ score_out = Returned(100)
    /\ ScoreSum(row) = 120

(* The rubric of the specification, as a table: per signal the tiers       *)
(* (threshold, points); only the highest matching tier awards points.      *)
Rubric ==
    [price_change_pct |-> {<<300, 30>>, <<200, 20>>, <<100, 10>>},
     volume_change_pct |-> {<<15000, 20>>, <<10000, 15>>, <<5000, 10>>},
     macd_diff |-> {<<0, 10>>},
     bb_width |-> {<<10, 5>>},
     close_position |-> {<<80, 20>>, <<70, 15>>, <<60, 10>>},
     vwap_diff |-> {<<100, 10>>, <<50, 5>>}]

RubricTier(r, f) ==
    LET m == {t \in Rubric[f] : r[f].k = "num" /\ r[f].v > t[1]}
    IN  IF m = {} THEN 0
        ELSE (CHOOSE t \in m : \A u \in m : u[1] <= t[1])[2]

RubricBand(r) ==
    IF r.rsi.k = "num" /\ 5500 < r.rsi.v /\ r.rsi.v < 7000 THEN 10 ELSE 0

RubricFlags(r) ==
    (IF r.ema_cross = Num(100) THEN 5 ELSE 0)
    + (IF r.ema20.v > r.ema50.v THEN 10 ELSE 0)

RubricScore(r) ==
    Min(RubricTier(r, "price_change_pct") + RubricTier(r, "volume_change_pct")
        + RubricBand(r) + RubricTier(r, "macd_diff") + RubricFlags(r)
        + RubricTier(r, "bb_width") + RubricTier(r, "close_position")
        + RubricTier(r, "vwap_diff"), 100)

(* C2: calculate_btst_score equals the reference rubric on every input;    *)
(* the all-strongest row scores exactly 100, the all-neutral row exactly 0.*)
C2_MatchesRubric ==
    score_out # Pending =>
        /\ score_out = Returned(RubricScore(row))
        /\ row = AllStrongest => score_out = Returned(100)
        /\ row = AllNeutral => score_out = Returned(0)

C2_Witness ==
    /\ row = AllStrongest
    /\ score_out = Returned(100)

\* signals the claim calls independent
MonoSignals == {"price_change_pct", "volume_change_pct", "rsi", "macd_diff",
                "bb_width", "close_position", "vwap_diff"}

\* raising the one signal f of the scored row never lowers the score
MonotoneIn(f) ==
    \A x \in NumericValues[f] :
        (x.k = "num" /\ row[f].k = "num" /\ x.v > row[f].v)
        => calculate_btst_score([row EXCEPT ![f] = x]).score >= score_out.score

\* price_change_pct 0.5, 1.5, 2.5, 3.5 contributes 0, 10, 20, 30
PriceLadder ==
    /\ row.price_change_pct = Num(50) => PriceMomentumPoints(row) = 0
    /\ row.price_change_pct = Num(150) => PriceMomentumPoints(row) = 10
    /\ row.price_change_pct = Num(250) => PriceMomentumPoints(row) = 20
    /\ row.price_change_pct = Num(350) => PriceMomentumPoints(row) = 30

(* C3 as stated: the score is monotonic in each of price_change_pct,       *)
(* volume_change_pct, rsi, macd_diff, bb_width, close_position, vwap_diff. *)
C3_MonotoneAll ==
    score_out.st = "returned" =>
        (\A f \in MonoSignals : MonotoneIn(f)) /\ PriceLadder

(* C3 amended: the score is monotonic in each of price_change_pct,         *)
(* volume_change_pct, macd_diff, bb_width, close_position and vwap_diff    *)
(* (not in rsi, whose points go to a band).                                *)
C3_MonotoneExceptRsi ==
    score_out.st = "returned" =>
        (\A f \in MonoSignals \ {"rsi"} : MonotoneIn(f)) /\ PriceLadder

\* a scored row whose price change 0.5 raised to 3.5 gains the 30 points
C3_Witness ==
    /\ score_out.st = "returned"
    /\ row.price_change_pct = Num(50)
    /\ calculate_btst_score([row EXCEPT !.price_change_pct = Num(350)]).score
          = score_out.score + 30

(* C4: the tier depends only on the score, with right-closed boundaries:   *)
(* (0,40] Avoid, (40,65] Neutral, (65,85] Watch, (85,100] Strong Buy.      *)
C4_Buckets ==
    recommendation # "pending" =>
        /\ (0 < score_in /\ score_in <= 40) => recommendation = "Avoid"
        /\ (40 < score_in /\ score_in <= 65) => recommendation = "Neutral"
        /\ (65 < score_in /\ score_in <= 85) => recommendation = "Watch"
        /\ (85 < score_in /\ score_in <= 100) => recommendation = "Strong Buy"
        /\ score_in = 40 => recommendation = "Avoid"
        /\ score_in = 41 => recommendation = "Neutral"
        /\ score_in = 65 => recommendation = "Neutral"
        /\ score_in = 66 => recommendation = "Watch"
        /\ score_in = 85 => recommendation = "Watch"
        /\ score_in \in {86, 100} => recommendation = "Strong Buy"

C4_Witness ==
    /\ score_in = 85
    /\ recommendation = "Watch"

(* C6: calculate_btst_score never raises: a missing field takes its        *)
(* default and awards no points, a non-numeric field counts as 0, and the  *)
(* rest of the score is computed and returned.                             *)
Coerced(r) ==
    [f \in DOMAIN r |-> IF r[f].k = "str" THEN Num(0) ELSE r[f]]

C6_ScorerTotal ==
    score_out # Pending =>
        /\ score_out.st = "returned"
        /\ score_out = calculate_btst_score(Coerced(row))

(* C5: every Score Record of the results table has a recommendation tier, *)
(* for every score the scorer can return; a score of 0 is bucketed as      *)
(* Avoid.                                                                  *)
C5_EveryRecordBucketed ==
    pc = "done" =>
        \A k \in 1..Len(results_df) :
            /\ results_df[k].Recommendation \in {Labels[b] : b \in 1..Len(Labels)}
            /\ results_df[k].Score = 0 => results_df[k].Recommendation = "Avoid"

\* symbol j was fetched with at least 20 bars and its processing raised nothing
Scored(j) ==
    /\ fetched[j].kind = "frame"
    /\ fetched[j].bars >= 20
    /\ ~\E w \in 1..Len(warnings) :
           warnings[w].kind = "symbol" /\ warnings[w].n = j

\* the symbols among the first j that are scored, in list order
RECURSIVE ScoredSymbols(_)
ScoredSymbols(j) ==
    IF j = 0 THEN <<>>
    ELSE IF Scored(j) THEN Append(ScoredSymbols(j - 1), CleanSymbol(symbols[j]))
    ELSE ScoredSymbols(j - 1)

\* the loop has asked for the first i symbols, each once, in list order, and
\* holds one record for each scored one and no other
LoopState ==
    pc \in {"scan", "done"} =>
        /\ i <= Len(symbols)
        /\ Len(fetched) = i
        /\ \A j \in 1..i : fetched[j].symbol = YfSymbol(symbols[j], market_choice)
        /\ [k \in 1..Len(results) |-> results[k].Symbol] = ScoredSymbols(i)
        /\ pc = "done" => i = Len(symbols)

\* no step removes or changes a record appended earlier
RecordsKept ==
    /\ Len(results') >= Len(results)
    /\ \A k \in 1..Len(results) : results'[k] = results[k]

\* a step of the loop moves to the next symbol, or ends the loop after the
\* last one; nothing else leaves the loop
Advances ==
    pc = "scan" =>
        \/ pc' = "scan" /\ i' = i + 1
        \/ pc' = "done" /\ i = Len(symbols) /\ i' = i

(* C7: whatever each download answers, the loop visits every symbol once,  *)
(* in list order, and reaches the end of the list; at the end the results  *)
(* hold exactly one record for each symbol fetched with at least 20 bars   *)
(* and processed without an exception, none for any other, and no skipped  *)
(* or failing symbol removes or changes an earlier record.                 *)
C7_LoopIsolation ==
    /\ []LoopState
    /\ [][RecordsKept /\ Advances]_vars
    /\ [](pc \in {"done", "stopped"} \/ ENABLED Next)

\* a scan that ended with a record for the first symbol, the second failing
C7_Witness ==
    /\ pc = "done"
    /\ Len(symbols) = 2
    /\ Scored(1)
    /\ \E w \in 1..Len(warnings) : warnings[w].kind = "symbol" /\ warnings[w].n = 2
    /\ Len(results) = 1
    /\ results[1].Symbol = CleanSymbol(symbols[1])

(* C9: the market-strength label follows from the benchmark download       *)
(* alone: Bullish when it holds two closes or more and the last is above   *)
(* the one before, Bearish when the last is at or below it, Unknown when   *)
(* the download raises or holds fewer than two rows; and whatever the      *)
(* download answers, the per-symbol scan starts.                           *)
C9_MarketLabel ==
    nifty_data # NoDownload =>
        LET c == nifty_data.closes
            two == nifty_data.kind = "frame" /\ Len(c) >= 2
        IN  /\ (two /\ c[Len(c)] > c[Len(c) - 1]) => market_strength = "Bullish"
            /\ (two /\ c[Len(c)] <= c[Len(c) - 1]) => market_strength = "Bearish"
            /\ (nifty_data.kind = "raise" \/ Len(c) < 2)
                  => market_strength = "Unknown"
            /\ pc \in {"scan", "done"}

\* the benchmark download raised and a symbol was scored all the same
C9_Witness ==
    /\ nifty_data.kind = "raise"
    /\ market_strength = "Unknown"
    /\ Len(results) >= 1

====
